---- MODULE Spec2Model ----
(***************************************************************************)
(* Model of the LangCache shadow-mode repository.                          *)
(*                                                                         *)
(*   examples/flask-app/app.py      the /query handler (shadow and normal  *)
(*                                  mode) and the background record writer *)
(*   examples/simple-chatbot/app.py the live decision engine and the       *)
(*                                  readers of the stored records          *)
(*   analytics/analyze_shadow_data.py, how-to-analyze-your-data/           *)
(*   analyze_pilot_data.py          the file loaders                       *)
(*                                                                         *)
(* Conventions.  A nullable value is a sequence: <<>> is None, <<v>> is v. *)
(* Similarities and distances are integers in hundredths (0.8 is 80).      *)
(* Texts are short tags: "L1", "L2" are the answers of the first and the   *)
(* second LLM call of a request, "ERR" the apology text the flask app      *)
(* returns when the LLM call raises, "K1" a cached answer, "" the empty    *)
(* text.                                                                   *)
(***************************************************************************)
EXTENDS Integers, Sequences, FiniteSets, TLC

VARIABLES
    SHADOW_MODE,           \* flask-app: LANGCACHE_SHADOW_MODE == 'true'
    USE_LANGCACHE,         \* flask-app: the LangCache configuration is complete
    redis_client,          \* flask-app: "client" or "None"
    cur,                   \* flask-app: the /query request being handled
    handled,               \* flask-app: number of /query requests taken so far
    threads,               \* flask-app: the writer threads started by log_shadow_data
    cache_operations_log,  \* flask-app: the operations log of the process
    redis_store,           \* the remote keyed store: the set of stored documents
    file,                  \* shadow_mode.log: the sequence of chunks written to it
    live,                  \* simple-chatbot: the last live-mode call (inputs and result)
    loaded,                \* the last read of the stored records (reader and result)
    analysis,              \* the last run of an analyzer over the loaded records
    session,               \* simple-chatbot: session['config'] of each browser session
    openai_client,         \* simple-chatbot: the module-level `client` (line 58)
    request                \* simple-chatbot: the last configuration or chat request

vars == <<SHADOW_MODE, USE_LANGCACHE, redis_client, cur, handled, threads,
          cache_operations_log, redis_store, file, live, loaded, analysis,
          session, openai_client, request>>

(***************************************************************************)
(* Bounds                                                                  *)
(***************************************************************************)
MaxRequests == 2     \* /query requests handled in one run
MaxLines == 3        \* lines of a fallback file given to the readers
MaxKeys == 2         \* documents of the remote store given to the readers
MaxRecords == 3      \* records of a file given to the analyzers
MaxValues == 3       \* latencies of a drawn list given to the percentiles

\* shadow_data[:100], the cap on the entries GET /api/shadow-data returns
DataLimit == 100

\* `similarity > 0.8`, the live-mode threshold, in hundredths
LIVE_THRESHOLD == 80

None == <<>>
Some(v) == <<v>>

(***************************************************************************)
(* The cache backend as the handlers see it                                *)
(***************************************************************************)
\* One element of the candidate array.  junk: the element is not a JSON
\* object, or a field the handler computes with is not of the expected type
\* (the handler's access raises).
Cand(junk, response, prompt, distance, similarity) ==
    [junk |-> junk, response |-> response, prompt |-> prompt,
     distance |-> distance, similarity |-> similarity]

JunkCand == Cand(TRUE, None, None, None, None)

\* candidates offered to the flask-app handler (it reads 'distance')
FlaskCandidates ==
    { Cand(FALSE, Some("K1"), Some("p1"), Some(0), None),
      Cand(FALSE, Some("K1"), Some("p1"), Some(30), None),
      Cand(FALSE, None, None, None, None),
      JunkCand }

\* the outcome of POST .../search: the request raises (timeout, network
\* error), a non-200 status, a 200 whose body is no JSON or has no len(),
\* or a 200 with a JSON array of candidates
Probe(kind, results) == [kind |-> kind, results |-> results]

FlaskProbes ==
    { Probe("timeout", <<>>), Probe("http_error", <<>>), Probe("bad_json", <<>>),
      Probe("ok", <<>>) }
    \cup { Probe("ok", <<c>>) : c \in FlaskCandidates }
    \cup { Probe("ok", <<Cand(FALSE, Some("K1"), Some("p1"), Some(30), None),
                         Cand(FALSE, Some("K2"), Some("p2"), Some(0), None)>>) }

\* the behaviour of the LLM during one request: whether its first and its
\* second call succeed
LLMBehaviours == [{1, 2} -> {"ok", "fail"}]

Queries == {"q1"}

\* the outcome of POST .../entries in the flask app: status 201, or the
\* request raises (any other status ends in the same `return False`)
FlaskStoreOutcomes == {"201", "raise"}

(***************************************************************************)
(* flask-app: helpers of the /query handler                                *)
(***************************************************************************)
\* search_langcache: the candidate list on a 200, [] on anything else
search_langcache(probe) ==
    IF probe.kind = "ok" THEN probe.results ELSE <<>>

\* generate_gemini_response, k-th call of the request: the model's text, or
\* the apology text when the call raises
generate_gemini_response(llm, k) ==
    IF llm[k] = "ok" THEN (IF k = 1 THEN "L1" ELSE "L2") ELSE "ERR"

\* dict.get(key, default)
Get(field, default) == IF field = None THEN default ELSE field[1]

\* the time (ms) the handler spends in search_langcache, in
\* generate_gemini_response and in store_in_langcache
ProbeElapsed == 30
LLMElapsed == 400
StoreElapsed == 20

\* the shadow record of a cache hit (lines 236-244); now is
\* (time.time() - start_time) * 1000 when the record is built
hit_shadow_data(query_text, response, best_match, now) ==
    [query |-> query_text,
     llm_response |-> response,
     cache_hit |-> TRUE,
     cache_response |-> Some(Get(best_match.response, "")),
     similarity_score |-> Some(100 - Get(best_match.distance, 100)),
     matched_query |-> Some(Get(best_match.prompt, "")),
     llm_latency_ms |-> Some(now)]

\* a miss record scored like a hit: 1.0 - the default distance
miss_shadow_data_scored(query_text, response, now) ==
    [query |-> query_text,
     llm_response |-> response,
     cache_hit |-> FALSE,
     cache_response |-> None,
     similarity_score |-> Some(100 - 100),
     matched_query |-> None,
     llm_latency_ms |-> Some(now)]

\* the shadow record of a cache miss (lines 248-256)
miss_shadow_data(query_text, response, now) ==
    [query |-> query_text,
     llm_response |-> response,
     cache_hit |-> FALSE,
     cache_response |-> None,
     similarity_score |-> None,
     matched_query |-> None,
     llm_latency_ms |-> Some(now)]

\* what one run of the handler body produces: the JSON answer (response,
\* source, similarity), matched_query for the operations log, the number of
\* LLM calls, the store requests issued and the record handed to
\* log_shadow_data (None when it is not called)
Outcome(response, source, similarity, matched_query, llm_calls, stores, shadow_data) ==
    [response |-> response, source |-> source, similarity |-> similarity,
     matched_query |-> matched_query, llm_calls |-> llm_calls,
     stores |-> stores, shadow_data |-> shadow_data]

StoreReq(query_text, response) == [prompt |-> query_text, response |-> response]

\* a store_in_langcache without its try/except: the request's exception
\* reaches the caller
store_in_langcache_unguarded(store) ==
    [raised |-> (store = "raise"), stored |-> (store = "201")]

\* store_in_langcache (lines 116-143): True on a 201, False on any other
\* status and on any exception; it never raises
store_in_langcache(store) ==
    [raised |-> FALSE, stored |-> (store = "201")]

\* the except branch of the handler (lines 285-290): one more LLM call
except_branch(llm, calls_so_far, stores, matched_query) ==
    Outcome(generate_gemini_response(llm, calls_so_far + 1), "llm", None,
            matched_query, calls_so_far + 1, stores, None)

\* NORMAL MODE branch (lines 260-283)
normal_branch(query_text, search_response, llm, store) ==
    LET cache_hit == Len(search_response) > 0
    IN  IF cache_hit
        THEN LET best_match == search_response[1]
             IN  IF best_match.junk
                 THEN except_branch(llm, 0, <<>>, None)
                 ELSE Outcome(Get(best_match.response, ""), "cache",
                              Some(100 - Get(best_match.distance, 100)),
                              Some(Get(best_match.prompt, "")), 0, <<>>, None)
        ELSE LET response == generate_gemini_response(llm, 1)
                 stores == <<StoreReq(query_text, response)>>
             IN  IF store_in_langcache(store).raised
                 THEN except_branch(llm, 1, stores, None)
                 ELSE Outcome(response, "llm", None, None, 1, stores, None)

\* a shadow branch that serves the cached answer on a hit, as normal mode does
shadow_branch_serving(query_text, search_response, llm, store, now) ==
    normal_branch(query_text, search_response, llm, store)

\* a shadow branch that reports its own source tag to the caller
shadow_branch_tagged(query_text, search_response, llm, store, now) ==
    LET response == generate_gemini_response(llm, 1)
    IN  Outcome(response, "shadow_mode", None, None, 1,
                IF Len(search_response) = 0
                THEN <<StoreReq(query_text, response)>> ELSE <<>>,
                None)

\* SHADOW MODE branch (lines 216-258), entered at now ms after start_time
\* (line 199); the records are built after the LLM call and, on a miss,
\* after the store request
shadow_branch(query_text, search_response, llm, store, now) ==
    LET cache_hit == Len(search_response) > 0
        response == generate_gemini_response(llm, 1)
        stores == IF ~cache_hit THEN <<StoreReq(query_text, response)>> ELSE <<>>
        elapsed == now + LLMElapsed + (IF ~cache_hit THEN StoreElapsed ELSE 0)
    IN  IF ~cache_hit /\ store_in_langcache(store).raised
        THEN except_branch(llm, 1, stores, None)
        ELSE IF cache_hit
        THEN LET best_match == search_response[1]
             IN  IF best_match.junk
                 THEN except_branch(llm, 1, stores, None)
                 ELSE Outcome(response, "llm", None,
                              Some(Get(best_match.prompt, "")), 1, stores,
                              Some(hit_shadow_data(query_text, response, best_match,
                                                   elapsed)))
        ELSE Outcome(response, "llm", None, None, 1, stores,
                     Some(miss_shadow_data(query_text, response, elapsed)))

\* a handler that does not test USE_LANGCACHE before probing
query_always_probing(shadow, use, query_text, probe, llm, store) ==
    LET search_response == search_langcache(probe)
    IN  [probes |-> 1] @@
        (IF shadow
         THEN shadow_branch(query_text, search_response, llm, store, ProbeElapsed)
         ELSE normal_branch(query_text, search_response, llm, store))

\* the body of query() up to the operations log (lines 192-296); probes is
\* the number of calls of search_langcache
query(shadow, use, query_text, probe, llm, store) ==
    IF use
    THEN LET search_response == search_langcache(probe)
         IN  [probes |-> 1] @@
             (IF shadow
              THEN shadow_branch(query_text, search_response, llm, store, ProbeElapsed)
              ELSE normal_branch(query_text, search_response, llm, store))
    ELSE [probes |-> 0] @@
         Outcome(generate_gemini_response(llm, 1), "llm", None, None, 1, <<>>, None)

\* the JSON body returned to the caller (lines 321-326) without time_taken
CallerVisible(out) ==
    [response |-> out.response, source |-> out.source, similarity |-> out.similarity]

(***************************************************************************)
(* flask-app: log_shadow_data and the writer thread                        *)
(***************************************************************************)
\* a log_shadow_data that waits for the thread it started
log_shadow_data_joined(shadow_data) ==
    IF SHADOW_MODE
    THEN threads' = Append(threads, [pc |-> "run", join |-> TRUE,
                                     shadow_data |-> shadow_data])
    ELSE UNCHANGED threads

\* log_shadow_data: starts a daemon thread running _log and returns; it
\* never joins the thread.  Without SHADOW_MODE it does nothing.
log_shadow_data(shadow_data) ==
    IF SHADOW_MODE
    THEN threads' = Append(threads, [pc |-> "run", join |-> FALSE,
                                     shadow_data |-> shadow_data])
    ELSE UNCHANGED threads

\* a document whose request_id is derived from the query text instead of
\* being drawn afresh
Document_keyed_by_query(t) ==
    [request_id |-> threads[t].shadow_data.query] @@ threads[t].shadow_data

\* the document _log serialises: the record with its request_id (uuid4 is
\* unique per thread; the thread number stands for it).  The wall-clock
\* timestamp field is not represented.
Document(t) ==
    [request_id |-> t] @@ threads[t].shadow_data

\* a chunk of the fallback file; the "tail" chunk ends with the newline
Chunk(t, part) == [id |-> t, part |-> part, rec |-> Document(t)]

Idle == [pc |-> "idle"]

\* the browser sessions of the simple-chatbot, the keys of session['config']
\* that are modelled, and the config of a session that has stored nothing
\* (an absent key reads as the empty text)
Sessions == {"A", "B"}
ConfigKeys == {"openai_api_key", "langcache_cache_id"}
NoConfig == [k \in ConfigKeys |-> <<>>]

(***************************************************************************)
(* The fallback file as its readers see it                                 *)
(***************************************************************************)
\* `for line in f`: the chunks up to and including each newline, and what
\* follows the last newline when it is not empty
RECURSIVE SplitLines(_, _)
SplitLines(f, acc) ==
    IF f = <<>>
    THEN (IF acc = <<>> THEN <<>> ELSE <<acc>>)
    ELSE IF Head(f).part \in {"tail", "nl"}
         THEN <<Append(acc, Head(f))>> \o SplitLines(Tail(f), <<>>)
         ELSE SplitLines(Tail(f), Append(acc, Head(f)))

Lines(f) == SplitLines(f, <<>>)

\* line.strip() is empty
Blank(line) == \A i \in 1..Len(line) : line[i].part = "nl"

\* json.loads(line) succeeds: the line is one whole serialised document
WellFormed(line) ==
    /\ Len(line) = 2
    /\ line[1].part = "head"
    /\ line[2].part = "tail"
    /\ line[1].id = line[2].id

json_loads(line) == line[1].rec

WellFormedLines(f) == { i \in 1..Len(Lines(f)) : WellFormed(Lines(f)[i]) }

\* the records a reader can obtain: the remote store's documents and the
\* parseable lines of the fallback file
PersistedRecords ==
    redis_store \cup { json_loads(Lines(file)[i]) : i \in WellFormedLines(file) }

(***************************************************************************)
(* flask-app: actions                                                      *)
(***************************************************************************)
\* POST /query up to the operations log: the probe, the LLM call(s), the
\* store request and the call of log_shadow_data.  cur.store is the outcome
\* of the store request when one was sent.
Query ==
    /\ cur.pc \in {"idle", "returned"}
    /\ handled < MaxRequests
    /\ \E query_text \in Queries, probe \in FlaskProbes, llm \in LLMBehaviours,
          store \in FlaskStoreOutcomes :
          LET out == query(SHADOW_MODE, USE_LANGCACHE, query_text, probe, llm, store)
          IN  /\ cur' = [pc |-> "handled", query |-> query_text, probe |-> probe,
                         llm |-> llm,
                         store |-> IF out.stores = <<>> THEN "unsent" ELSE store,
                         out |-> out]
              /\ IF out.shadow_data # None
                 THEN log_shadow_data(out.shadow_data[1])
                 ELSE UNCHANGED threads
    /\ handled' = handled + 1
    /\ UNCHANGED <<SHADOW_MODE, USE_LANGCACHE, redis_client, cache_operations_log,
                   redis_store, file, live, loaded, analysis,
                   session, openai_client, request>>

\* the rest of the handler (lines 298-326): append to the operations log and
\* return the JSON body.  It waits for no writer thread unless one was
\* started to be joined.
Respond ==
    /\ cur.pc = "handled"
    /\ \A t \in 1..Len(threads) :
          threads[t].join => threads[t].pc \in {"done", "failed"}
    /\ cur' = [cur EXCEPT !.pc = "returned"]
    /\ cache_operations_log' =
          Append(cache_operations_log,
                 [query |-> cur.query, source |-> cur.out.source,
                  similarity |-> cur.out.similarity,
                  matched_query |-> cur.out.matched_query])
    /\ UNCHANGED <<SHADOW_MODE, USE_LANGCACHE, redis_client, handled, threads,
                   redis_store, file, live, loaded, analysis,
                   session, openai_client, request>>

\* _log with a redis client: SET shadow:<request_id>, which replaces the
\* value the key had; the call returns, or raises and the exception is
\* logged (a call that hangs is this action never happening)
RedisSet(t) ==
    /\ threads[t].pc = "run"
    /\ redis_client = "client"
    /\ \E outcome \in {"ok", "error"} :
          IF outcome = "ok"
          THEN /\ redis_store' =
                     { d \in redis_store : d.request_id # Document(t).request_id }
                     \cup {Document(t)}
               /\ threads' = [threads EXCEPT ![t].pc = "done"]
          ELSE /\ UNCHANGED redis_store
               /\ threads' = [threads EXCEPT ![t].pc = "failed"]
    /\ UNCHANGED <<SHADOW_MODE, USE_LANGCACHE, redis_client, cur, handled,
                   cache_operations_log, file, live, loaded, analysis,
                   session, openai_client, request>>

\* _log without a redis client: open("shadow_mode.log", "a") and the first
\* part of the line reaching the file
FileWriteHead(t) ==
    /\ threads[t].pc = "run"
    /\ redis_client = "None"
    /\ file' = Append(file, Chunk(t, "head"))
    /\ threads' = [threads EXCEPT ![t].pc = "mid"]
    /\ UNCHANGED <<SHADOW_MODE, USE_LANGCACHE, redis_client, cur, handled,
                   cache_operations_log, redis_store, live, loaded, analysis,
                   session, openai_client, request>>

\* the rest of the line, with its newline, reaching the file
FileWriteTail(t) ==
    /\ threads[t].pc = "mid"
    /\ file' = Append(file, Chunk(t, "tail"))
    /\ threads' = [threads EXCEPT ![t].pc = "done"]
    /\ UNCHANGED <<SHADOW_MODE, USE_LANGCACHE, redis_client, cur, handled,
                   cache_operations_log, redis_store, live, loaded, analysis,
                   session, openai_client, request>>

WriterStep ==
    \E t \in 1..Len(threads) : RedisSet(t) \/ FileWriteHead(t) \/ FileWriteTail(t)

\* module import: the environment fixes the flags; the redis client exists
\* only in shadow mode and only when the redis package is importable
Init ==
    /\ SHADOW_MODE \in BOOLEAN
    /\ USE_LANGCACHE \in BOOLEAN
    /\ redis_client \in (IF SHADOW_MODE THEN {"client", "None"} ELSE {"None"})
    /\ cur = Idle
    /\ handled = 0
    /\ threads = <<>>
    /\ cache_operations_log = <<>>
    /\ redis_store = {}
    /\ file = <<>>
    /\ live = Idle
    /\ session = [s \in Sessions |-> NoConfig]
    /\ openai_client = None
    /\ request = Idle
    /\ loaded = Idle
    /\ analysis = Idle

Next == Query \/ Respond \/ WriterStep

Spec == Init /\ [][Next]_vars

(***************************************************************************)
(* Readers of the stored records                                           *)
(***************************************************************************)
\* d.get(name, default): the value of the key, null included, or the default
DictGet(d, name, default) == IF name \in DOMAIN d THEN d[name] ELSE default

\* d.get('cache_hit', False)
IsHit(d) == IF "cache_hit" \in DOMAIN d THEN d.cache_hit ELSE FALSE

\* json.loads of a value of the remote store succeeds
JsonOk(d) == "cache_hit" \in DOMAIN d

\* x.get('ts_request', ''), the empty text ordered below every timestamp
TsOf(d) == IF "ts_request" \in DOMAIN d THEN d.ts_request ELSE 0

\* list.sort(key=ts_request, reverse=True): stable, newest first
RECURSIVE InsertDesc(_, _)
InsertDesc(sorted, d) ==
    IF sorted = <<>> THEN <<d>>
    ELSE IF TsOf(Head(sorted)) >= TsOf(d)
         THEN <<Head(sorted)>> \o InsertDesc(Tail(sorted), d)
         ELSE <<d>> \o sorted

RECURSIVE SortNewestFirst(_)
SortNewestFirst(data) ==
    IF data = <<>> THEN <<>>
    ELSE InsertDesc(SortNewestFirst(SubSeq(data, 1, Len(data) - 1)), data[Len(data)])

\* the per-line loop with `except json.JSONDecodeError: continue`
RECURSIVE LoadSkipping(_)
LoadSkipping(lines) ==
    IF lines = <<>> THEN <<>>
    ELSE IF Blank(Head(lines)) \/ ~WellFormed(Head(lines))
         THEN LoadSkipping(Tail(lines))
         ELSE <<json_loads(Head(lines))>> \o LoadSkipping(Tail(lines))

\* the per-line loop whose json.loads is guarded only by the try around
\* the whole read: the first bad line ends the read
RECURSIVE LoadUntilBad(_)
LoadUntilBad(lines) ==
    IF lines = <<>> THEN <<>>
    ELSE IF Blank(Head(lines)) THEN LoadUntilBad(Tail(lines))
    ELSE IF ~WellFormed(Head(lines)) THEN <<>>
    ELSE <<json_loads(Head(lines))>> \o LoadUntilBad(Tail(lines))

\* analytics/analyze_shadow_data.py, ShadowDataAnalyzer.load_from_file
ShadowDataAnalyzer_load_from_file(f) == LoadUntilBad(Lines(f))

\* how-to-analyze-your-data/analyze_pilot_data.py, PilotDataAnalyzer.load_from_file
PilotDataAnalyzer_load_from_file(f) == LoadSkipping(Lines(f))

\* the values of the keys shadow:* in the order KEYS returned them, each
\* parsed; a value that does not parse is skipped (lines 520-527)
RECURSIVE LoadKeys(_)
LoadKeys(values) ==
    IF values = <<>> THEN <<>>
    ELSE IF JsonOk(Head(values))
         THEN <<Head(values)>> \o LoadKeys(Tail(values))
         ELSE LoadKeys(Tail(values))

(***************************************************************************)
(* The analyzers: helpers                                                  *)
(*                                                                         *)
(* Latencies are whole milliseconds; a value rounded to k decimals is the  *)
(* integer count of its 10^-k units (12.35 ms rounded to 2 is 1235).       *)
(* A timestamp text is a number ordered as the texts are: 0 is the empty   *)
(* text, t >= 1 the ISO text of the hour t counted from the first day.     *)
(***************************************************************************)
\* the truth value of a number or None: None and 0 are false
Truthy(v) == v # None /\ v[1] # 0

RECURSIVE Sum(_)
Sum(values) == IF values = <<>> THEN 0 ELSE Head(values) + Sum(Tail(values))

\* round(num / den * scale): the nearest integer (no tie arises for the
\* denominators below 8 and for 100 and 101, the sizes analysed here)
Round(num, den, scale) == (2 * num * scale + den) \div (2 * den)

\* [d.get(name, 0) for d in data if d.get(name)]
RECURSIVE TruthyValues(_, _)
TruthyValues(data, name) ==
    IF data = <<>> THEN <<>>
    ELSE LET v == DictGet(Head(data), name, None)
         IN  (IF Truthy(v) THEN <<v[1]>> ELSE <<>>) \o TruthyValues(Tail(data), name)

\* [d.get(name, 0) for d in data if d.get(name) is not None]
RECURSIVE NonNullValues(_, _)
NonNullValues(data, name) ==
    IF data = <<>> THEN <<>>
    ELSE LET v == DictGet(Head(data), name, None)
         IN  (IF v # None THEN <<v[1]>> ELSE <<>>) \o NonNullValues(Tail(data), name)

\* statistics.mean(values) if values else 0, as the fraction num/den
Mean(values) ==
    IF values = <<>> THEN [num |-> 0, den |-> 1]
    ELSE [num |-> Sum(values), den |-> Len(values)]

\* round(mean, k) with scale = 10^k
RoundMean(m, scale) == Round(m.num, m.den, scale)

\* a count of the records that carry the key cache_hit, whatever its value
CountHits_key_present(data) ==
    Cardinality({ i \in 1..Len(data) : "cache_hit" \in DOMAIN data[i] })

\* sum(1 for d in data if d.get('cache_hit', False))
CountHits(data) == Cardinality({ i \in 1..Len(data) : IsHit(data[i]) })

\* d.get('tokens_llm', 0) of the records, of the hits only when hits_only
RECURSIVE TokenTerms(_, _)
TokenTerms(data, hits_only) ==
    IF data = <<>> THEN <<>>
    ELSE (IF hits_only /\ ~IsHit(Head(data)) THEN <<>>
          ELSE <<DictGet(Head(data), "tokens_llm", Some(0))>>)
         \o TokenTerms(Tail(data), hits_only)

\* sum(...) raises TypeError when a term is None
SumRaises(terms) == \E i \in 1..Len(terms) : terms[i] = None

RECURSIVE SumTerms(_)
SumTerms(terms) ==
    IF terms = <<>> THEN 0 ELSE Head(terms)[1] + SumTerms(Tail(terms))

\* round((tokens_saved / 1000) * 0.002, 4) in 0.0001 USD
CostSavings(tokens_saved) == Round(tokens_saved, 50, 1)

\* the metrics block raises (lines 595-596): a record has tokens_llm null
MetricsRaises(data) == data # <<>> /\ SumRaises(TokenTerms(data, FALSE))

\* the metrics block (lines 577-600); all zero when there is no data.
\* Rates and latencies are in tenths, costs in 0.0001 USD.
Metrics(data) ==
    LET cache_hits == CountHits(data)
        llm_latencies == TruthyValues(data, "latency_llm_ms")
        cache_latencies == TruthyValues(data, "latency_cache_ms")
        avg_llm_latency == IF llm_latencies # <<>>
                           THEN RoundMean(Mean(llm_latencies), 10) ELSE 0
        avg_cache_latency == IF cache_latencies # <<>>
                             THEN RoundMean(Mean(cache_latencies), 10) ELSE 0
        tokens_saved == IF MetricsRaises(data) THEN 0
                        ELSE SumTerms(TokenTerms(data, TRUE))
    IN  [total_queries |-> Len(data),
         cache_hits |-> cache_hits,
         cache_misses |-> Len(data) - cache_hits,
         hit_rate |-> IF Len(data) > 0 THEN Round(cache_hits * 100, Len(data), 10)
                      ELSE 0,
         avg_llm_latency |-> avg_llm_latency,
         avg_cache_latency |-> avg_cache_latency,
         latency_improvement |->
             IF avg_llm_latency > 0
             THEN Round((avg_llm_latency - avg_cache_latency) * 100, avg_llm_latency, 10)
             ELSE 0,
         total_tokens |-> IF MetricsRaises(data) THEN 0
                          ELSE SumTerms(TokenTerms(data, FALSE)),
         tokens_saved |-> tokens_saved,
         cost_savings_estimate |-> CostSavings(tokens_saved)]

\* simple-chatbot GET /api/shadow-data (lines 484-611).  redis_url: None or
\* the configured url; outcome: "ok" or "error" (from_url/KEYS raises);
\* values: the store's values in the order KEYS listed them.  raised: the
\* metrics block raised and the request has no body (data and metrics are
\* then left empty)
get_shadow_data(redis_url, outcome, values, f) ==
    IF redis_url = None
    THEN [raised |-> FALSE, data |-> <<>>, metrics |-> Metrics(<<>>),
          read_file |-> FALSE]
    ELSE LET from_redis == IF outcome = "ok" THEN LoadKeys(values) ELSE <<>>
             shadow_data == IF from_redis = <<>>
                            THEN LoadSkipping(Lines(f))
                            ELSE from_redis
         IN  IF MetricsRaises(shadow_data)
             THEN [raised |-> TRUE, data |-> <<>>, metrics |-> Metrics(<<>>),
                   read_file |-> (from_redis = <<>>)]
             ELSE [raised |-> FALSE,
                   data |-> SubSeq(SortNewestFirst(shadow_data), 1,
                                   IF Len(shadow_data) < DataLimit
                                   THEN Len(shadow_data) ELSE DataLimit),
                   metrics |-> Metrics(shadow_data),
                   read_file |-> (from_redis = <<>>)]

\* sum(1 for line in f if line.strip())
CountNonBlank(f) ==
    Cardinality({ i \in 1..Len(Lines(f)) : ~Blank(Lines(f)[i]) })

\* simple-chatbot GET /shadow-status (lines 316-354).  Without a redis_url
\* redis_client is never bound and redis_client.keys raises, which lands in
\* the file count like any other exception
shadow_status(redis_url, outcome, values, f) ==
    IF redis_url # None /\ outcome = "ok"
    THEN [shadow_data_collected |-> Len(values), data_source |-> "redis"]
    ELSE IF f = <<>>
         THEN [shadow_data_collected |-> 0, data_source |-> "none"]
         ELSE [shadow_data_collected |-> CountNonBlank(f), data_source |-> "file"]

(***************************************************************************)
(* Stored data given to the readers                                        *)
(***************************************************************************)
LineSpecs ==
    { [kind |-> "good", cache_hit |-> b, ts |-> ts] : b \in BOOLEAN, ts \in {1, 2} }
    \cup { [kind |-> "corrupt"], [kind |-> "blank"] }

\* the chunks of line i of a file: a whole document, a line holding only
\* the rest of a document, or an empty line
LineChunks(i, ls) ==
    IF ls.kind = "blank" THEN << [part |-> "nl"] >>
    ELSE IF ls.kind = "corrupt"
         THEN << [id |-> i, part |-> "tail", rec |-> [request_id |-> i]] >>
         ELSE LET rec == [request_id |-> i, cache_hit |-> ls.cache_hit,
                          ts_request |-> ls.ts]
              IN  << [id |-> i, part |-> "head", rec |-> rec],
                     [id |-> i, part |-> "tail", rec |-> rec] >>

RECURSIVE BuildFile(_, _)
BuildFile(specs, i) ==
    IF i > Len(specs) THEN <<>>
    ELSE LineChunks(i, specs[i]) \o BuildFile(specs, i + 1)

Files == { BuildFile(specs, 1) :
             specs \in UNION { [1..n -> LineSpecs] : n \in 0..MaxLines } }

\* values under shadow:* keys: two documents and one value that is no JSON
StoreValues ==
    { [request_id |-> 101, cache_hit |-> TRUE, ts_request |-> 3],
      [request_id |-> 102, cache_hit |-> FALSE, ts_request |-> 1],
      [request_id |-> 103, cache_hit |-> TRUE, ts_request |-> 3],
      [request_id |-> 104, garbage |-> TRUE] }

Stores == { st \in SUBSET StoreValues : Cardinality(st) <= MaxKeys }

\* the orders in which KEYS can list a store
Orders(st) ==
    { o \in [1..Cardinality(st) -> st] :
        \A i, j \in 1..Cardinality(st) : i # j => o[i] # o[j] }

ReadUnchanged ==
    UNCHANGED <<SHADOW_MODE, USE_LANGCACHE, redis_client, cur, handled, threads,
                cache_operations_log, redis_store, file, live, analysis,
                   session, openai_client, request>>

\* GET /api/shadow-data
GetShadowData ==
    /\ \E redis_url \in {None, Some("url")}, outcome \in {"ok", "error"},
          values \in Orders(redis_store) :
          loaded' = [pc |-> "read", by |-> "get_shadow_data",
                     redis_url |-> redis_url, outcome |-> outcome,
                     result |-> get_shadow_data(redis_url, outcome, values, file)]
    /\ ReadUnchanged

\* GET /shadow-status
ShadowStatus ==
    /\ \E redis_url \in {None, Some("url")}, outcome \in {"ok", "error"},
          values \in Orders(redis_store) :
          loaded' = [pc |-> "read", by |-> "shadow_status",
                     redis_url |-> redis_url, outcome |-> outcome,
                     result |-> shadow_status(redis_url, outcome, values, file)]
    /\ ReadUnchanged

\* analyze_shadow_data.py --source file
LoadShadowAnalyzer ==
    /\ loaded' = [pc |-> "read", by |-> "ShadowDataAnalyzer.load_from_file",
                  result |-> [data |-> ShadowDataAnalyzer_load_from_file(file)]]
    /\ ReadUnchanged

\* analyze_pilot_data.py --file
LoadPilotAnalyzer ==
    /\ loaded' = [pc |-> "read", by |-> "PilotDataAnalyzer.load_from_file",
                  result |-> [data |-> PilotDataAnalyzer_load_from_file(file)]]
    /\ ReadUnchanged

InitRead ==
    /\ SHADOW_MODE = FALSE
    /\ USE_LANGCACHE = FALSE
    /\ redis_client = "None"
    /\ cur = Idle
    /\ handled = 0
    /\ threads = <<>>
    /\ cache_operations_log = <<>>
    /\ redis_store \in Stores
    /\ file \in Files
    /\ live = Idle
    /\ session = [s \in Sessions |-> NoConfig]
    /\ openai_client = None
    /\ request = Idle
    /\ loaded = Idle
    /\ analysis = Idle

NextRead == GetShadowData \/ ShadowStatus \/ LoadShadowAnalyzer \/ LoadPilotAnalyzer

SpecRead == InitRead /\ [][NextRead]_vars

\* requests whose records the writers persist while the readers run: a
\* miss and a hit
StoreRequests ==
    [query : Queries,
     probe : { Probe("ok", <<>>),
               Probe("ok", <<Cand(FALSE, Some("K1"), Some("p1"), Some(0), None)>>) },
     llm : { <<"ok", "ok">> },
     store : { "201" }]

\* the flask-app in shadow mode once it has answered n requests: the
\* operations log has their n entries and their n writer threads are
\* started and have not run yet
InitStore ==
    /\ SHADOW_MODE = TRUE
    /\ USE_LANGCACHE = TRUE
    /\ redis_client \in {"client", "None"}
    /\ \E n \in 1..MaxRequests : \E reqs \in [1..n -> StoreRequests] :
          LET outs == [i \in 1..n |->
                         query(TRUE, TRUE, reqs[i].query, reqs[i].probe,
                               reqs[i].llm, reqs[i].store)]
          IN  /\ handled = n
              /\ threads = [i \in 1..n |->
                               [pc |-> "run", join |-> FALSE,
                                shadow_data |-> outs[i].shadow_data[1]]]
              /\ cur = [pc |-> "returned", query |-> reqs[n].query,
                        probe |-> reqs[n].probe, llm |-> reqs[n].llm,
                        store |-> IF outs[n].stores = <<>> THEN "unsent"
                                  ELSE reqs[n].store,
                        out |-> outs[n]]
              /\ cache_operations_log =
                    [i \in 1..n |->
                       [query |-> reqs[i].query, source |-> outs[i].source,
                        similarity |-> outs[i].similarity,
                        matched_query |-> outs[i].matched_query]]
    /\ redis_store = {}
    /\ file = <<>>
    /\ live = Idle
    /\ session = [s \in Sessions |-> NoConfig]
    /\ openai_client = None
    /\ request = Idle
    /\ loaded = Idle
    /\ analysis = Idle

\* the writer threads and the readers, in any interleaving
NextStore == WriterStep \/ NextRead

SpecStore == InitStore /\ [][NextStore]_vars

(***************************************************************************)
(* Claims about the readers                                                *)
(***************************************************************************)
\* the records of the well-formed lines of the file, in file order
FileRecords(f) == LoadSkipping(Lines(f))

AsSet(seq) == { seq[i] : i \in 1..Len(seq) }

\* the primary store gives the reader nothing: no url configured, an error,
\* or no record
PrimaryYieldsNothing ==
    \/ loaded.redis_url = None
    \/ loaded.outcome = "error"
    \/ \A d \in redis_store : ~JsonOk(d)

\* C7: a read of all records returns the records of the primary store when
\* it has some, and the records of the fallback file, with the metrics
\* computed over them, whenever the primary is unconfigured, errors or has
\* no record
C7_ReadFallsBackToFile ==
    (loaded.pc = "read" /\ loaded.by = "get_shadow_data") =>
        IF PrimaryYieldsNothing
        THEN /\ AsSet(loaded.result.data) = AsSet(FileRecords(file))
             /\ loaded.result.metrics = Metrics(FileRecords(file))
        ELSE AsSet(loaded.result.data) = { d \in redis_store : JsonOk(d) }

\* C8: every loader of the fallback file yields exactly the records of its
\* well-formed lines
C8_CorruptLinesSkippedIndividually ==
    (/\ loaded.pc = "read"
     /\ loaded.by \in {"get_shadow_data", "ShadowDataAnalyzer.load_from_file",
                       "PilotDataAnalyzer.load_from_file"}
     /\ (loaded.by = "get_shadow_data" => loaded.result.read_file)) =>
        /\ Len(loaded.result.data) = Cardinality(WellFormedLines(file))
        /\ AsSet(loaded.result.data) = AsSet(FileRecords(file))

(***************************************************************************)
(* simple-chatbot: the live decision engine                                *)
(***************************************************************************)
\* candidates offered to the live engine (it reads 'similarity')
LiveCandidates ==
    { Cand(FALSE, Some(r), Some("p1"), None, Some(sim)) :
          r \in {"", "K1"}, sim \in {79, 80, 81, 100} }
    \cup { Cand(FALSE, Some("K1"), Some("p1"), Some(10), None),
           Cand(FALSE, None, None, None, Some(100)),
           JunkCand }

LiveProbes ==
    { Probe("timeout", <<>>), Probe("http_error", <<>>), Probe("bad_json", <<>>),
      Probe("ok", <<>>) }
    \cup { Probe("ok", <<c>>) : c \in LiveCandidates }
    \cup { Probe("ok", <<Cand(FALSE, Some("K1"), Some("p1"), None, Some(79)),
                         Cand(FALSE, Some("K2"), Some("p2"), None, Some(100))>>) }

\* the outcome of POST .../entries: a status, or the request raises
StoreOutcomes == {"200", "201", "500", "raise"}

\* the LLM during one live call: each of its calls answers or raises
LiveLLMBehaviours == [{1, 2} -> {"ok", "raise"}]

\* the session's LangCache credentials and the process's OpenAI client
LiveConfigs ==
    [langcache_api_key : {None, Some("key")},
     langcache_cache_id : {None, Some("id")},
     client : {None, Some("client")}]

\* get_openai_response, as the k-th call of the client: the placeholder
\* text without a client (no call is made), the model's text, or an exception
get_openai_response(client, llm, k) ==
    IF client = None
    THEN [raised |-> FALSE, text |-> "PLEASE_CONFIGURE", called |-> 0]
    ELSE IF llm[k] = "ok"
         THEN [raised |-> FALSE, text |-> (IF k = 1 THEN "L1" ELSE "L2"), called |-> 1]
         ELSE [raised |-> TRUE, text |-> "", called |-> 1]

\* the dict a live call returns, or the exception it lets through, with the
\* number of LLM calls made and the store requests issued
LiveResult(response, cached, source, reason, similarity, matched_query, llm_calls, stores) ==
    [raised |-> FALSE, response |-> response, cached |-> cached, source |-> source,
     reason |-> reason, similarity |-> similarity, matched_query |-> matched_query,
     llm_calls |-> llm_calls, stores |-> stores]

LiveRaised(llm_calls, stores) ==
    [raised |-> TRUE, llm_calls |-> llm_calls, stores |-> stores]

\* an LLM answer returned with the given reason, or the LLM's exception
LiveAnswer(r, reason, llm_calls, stores) ==
    IF r.raised
    THEN LiveRaised(llm_calls + r.called, stores)
    ELSE LiveResult(r.text, FALSE, "openai", reason, None, None,
                    llm_calls + r.called, stores)

\* the except branch (lines 206-216): one more get_openai_response
live_except(client, llm, llm_calls, stores) ==
    LiveAnswer(get_openai_response(client, llm, llm_calls + 1), "error",
               llm_calls, stores)

\* lines 167-204: the LLM call, the store request and the cache_miss result
live_fallthrough(client, user_message, llm, store) ==
    LET fresh == get_openai_response(client, llm, 1)
        stores == << StoreReq(user_message, fresh.text) >>
    IN  IF fresh.raised
        THEN live_except(client, llm, fresh.called, <<>>)
        ELSE IF store = "raise"
             THEN live_except(client, llm, fresh.called, stores)
             ELSE LiveAnswer(fresh, "cache_miss", 0, stores)

\* a live engine whose threshold test is >= instead of >
live_serves_cache_at_threshold(best_match) ==
    /\ Get(best_match.similarity, 0) >= LIVE_THRESHOLD
    /\ Get(best_match.response, "") # ""

\* lines 140-148: the best match clears the threshold and has a response
live_serves_cache(best_match) ==
    /\ Get(best_match.similarity, 0) > LIVE_THRESHOLD
    /\ Get(best_match.response, "") # ""

\* a cache hit that is returned under the reason of a miss
live_cache_hit_as_miss(best_match) ==
    LiveResult(Get(best_match.response, ""), TRUE, "langcache", "cache_miss",
               Some(Get(best_match.similarity, 0)),
               Some(Get(best_match.prompt, "")), 0, <<>>)

\* lines 148-158: the cached response is returned at once
live_cache_hit(best_match) ==
    LiveResult(Get(best_match.response, ""), TRUE, "langcache", "cache_hit",
               Some(Get(best_match.similarity, 0)),
               Some(Get(best_match.prompt, "")), 0, <<>>)

\* chat_with_langcache_live (lines 82-216)
chat_with_langcache_live(config, user_message, probe, llm, store) ==
    IF config.langcache_api_key = None \/ config.langcache_cache_id = None
    THEN LiveAnswer(get_openai_response(config.client, llm, 1),
                    "missing_credentials", 0, <<>>)
    ELSE IF probe.kind \in {"timeout", "bad_json"}
    THEN live_except(config.client, llm, 0, <<>>)
    ELSE IF probe.kind = "ok" /\ Len(probe.results) > 0
    THEN LET best_match == probe.results[1]
         IN  IF best_match.junk
             THEN live_except(config.client, llm, 0, <<>>)
             ELSE IF live_serves_cache(best_match)
                  THEN live_cache_hit(best_match)
                  ELSE live_fallthrough(config.client, user_message, llm, store)
    ELSE live_fallthrough(config.client, user_message, llm, store)

\* POST /chat with mode=live: one call of the live engine
ChatLive ==
    /\ \E config \in LiveConfigs, user_message \in Queries, probe \in LiveProbes,
          llm \in LiveLLMBehaviours, store \in StoreOutcomes :
          live' = [pc |-> "done", config |-> config, message |-> user_message,
                   probe |-> probe, llm |-> llm, store |-> store,
                   out |-> chat_with_langcache_live(config, user_message, probe,
                                                    llm, store)]
    /\ UNCHANGED <<SHADOW_MODE, USE_LANGCACHE, redis_client, cur, handled, threads,
                   cache_operations_log, redis_store, file, loaded, analysis,
                   session, openai_client, request>>

InitLive ==
    /\ SHADOW_MODE = FALSE
    /\ USE_LANGCACHE = FALSE
    /\ redis_client = "None"
    /\ cur = Idle
    /\ handled = 0
    /\ threads = <<>>
    /\ cache_operations_log = <<>>
    /\ redis_store = {}
    /\ file = <<>>
    /\ live = Idle
    /\ session = [s \in Sessions |-> NoConfig]
    /\ openai_client = None
    /\ request = Idle
    /\ loaded = Idle
    /\ analysis = Idle

NextLive == ChatLive

SpecLive == InitLive /\ [][NextLive]_vars

(***************************************************************************)
(* Claims about the live decision engine                                   *)
(***************************************************************************)
\* the live call had credentials and its probe returned a well-typed best
\* candidate
LiveHasCandidate ==
    /\ live.pc = "done"
    /\ live.config.langcache_api_key # None
    /\ live.config.langcache_cache_id # None
    /\ live.probe.kind = "ok"
    /\ Len(live.probe.results) > 0
    /\ ~live.probe.results[1].junk

LiveBest == live.probe.results[1]

LiveServedFromCache == ~live.out.raised /\ live.out.source = "langcache"

\* the steps after the threshold test ran to the return of line 196: no
\* LLM call and no store request raised
LiveFallthroughReturned ==
    /\ (live.config.client # None => live.llm[1] = "ok")
    /\ live.store # "raise"

\* C10: with a best candidate, the cached response is served if and only if
\* its similarity is strictly above 0.8 and its response text is not empty;
\* when served the answer is that text with source langcache; when not
\* served the answer never comes from the cache and, the fall-through having
\* returned, it is the LLM's text with reason cache_miss
C10_LiveThreshold ==
    LiveHasCandidate =>
        /\ LiveServedFromCache <=>
              (Get(LiveBest.similarity, 0) > 80 /\ Get(LiveBest.response, "") # "")
        /\ LiveServedFromCache =>
              /\ live.out.response = Get(LiveBest.response, "")
              /\ live.out.cached
              /\ live.out.reason = "cache_hit"
        /\ (~LiveServedFromCache /\ ~live.out.raised) =>
              /\ live.out.source = "openai"
              /\ ~live.out.cached
              /\ live.out.reason # "cache_hit"
              /\ live.out.response \notin {"K1", "K2"}
        /\ (~LiveServedFromCache /\ LiveFallthroughReturned) =>
              /\ ~live.out.raised
              /\ live.out.reason = "cache_miss"
              /\ live.out.response =
                    get_openai_response(live.config.client, live.llm, 1).text

\* a candidate at 0.81 served from the cache
C10_Witness ==
    /\ LiveHasCandidate
    /\ LiveBest.similarity = Some(81)
    /\ LiveBest.response = Some("K1")
    /\ LiveServedFromCache
    /\ live.out.response = "K1"

\* the live call had credentials, so it entered the try block of line 109
LiveTried ==
    /\ live.pc = "done"
    /\ live.config.langcache_api_key # None
    /\ live.config.langcache_cache_id # None

\* C11: in live mode an exception of the probe or of the store request is a
\* no-op for the answer: when the store request raises after the LLM call
\* of line 170 answered, the call returns that answer and the LLM was not
\* called again; when the probe raises the answer is the text of the one LLM
\* call made; an exception reaches the caller only if an LLM call raised
C11_LiveProbeStoreFailuresAreNoOps ==
    LiveTried =>
        /\ (live.out.stores # <<>> /\ live.store = "raise") =>
              /\ ~live.out.raised
              /\ live.out.response =
                    get_openai_response(live.config.client, live.llm, 1).text
              /\ live.out.llm_calls =
                    get_openai_response(live.config.client, live.llm, 1).called
        /\ (live.probe.kind \in {"timeout", "bad_json"}
              /\ get_openai_response(live.config.client, live.llm, 1).raised = FALSE) =>
              /\ ~live.out.raised
              /\ live.out.response =
                    get_openai_response(live.config.client, live.llm, 1).text
        /\ live.out.raised =>
              \E k \in 1..live.out.llm_calls : live.llm[k] = "raise"

FairSpec == Init /\ [][Next]_vars /\ WF_vars(Respond)

(***************************************************************************)
(* Claims about the flask-app handler and its writer                       *)
(***************************************************************************)
Answered == cur.pc \in {"handled", "returned"}

LLMTexts == {"L1", "L2", "ERR"}

\* C1: in shadow mode the answer is always the text of an LLM call of that
\* request and the reported source is "llm", never the cache, whatever the
\* probe found
C1_ShadowReturnsLLM ==
    (SHADOW_MODE /\ Answered) =>
        /\ cur.out.source = "llm"
        /\ cur.out.llm_calls >= 1
        /\ \E k \in 1..cur.out.llm_calls :
              cur.out.response = generate_gemini_response(cur.llm, k)
        /\ cur.out.similarity = None

\* a shadow-mode request answered while the probe found a candidate with
\* similarity 1.0 and a cached answer
C1_Witness ==
    /\ SHADOW_MODE /\ USE_LANGCACHE /\ cur.pc = "returned"
    /\ cur.probe.kind = "ok" /\ Len(cur.probe.results) = 1
    /\ cur.probe.results[1] = Cand(FALSE, Some("K1"), Some("p1"), Some(0), None)
    /\ cur.out.response \in LLMTexts

\* what the handler returns for the same request with the flag flipped
FlippedResult ==
    CallerVisible(query(~SHADOW_MODE, USE_LANGCACHE, cur.query, cur.probe, cur.llm,
                        cur.store))

ProbeFailed(probe) ==
    \/ probe.kind # "ok"
    \/ \E i \in 1..Len(probe.results) : probe.results[i].junk

\* C3: in shadow mode a failed probe leaves the answer the text of the LLM
\* call made for the request, and the record handed to the writer has
\* cache_hit=false and a null similarity
C3_ProbeFailureDegradesToMiss ==
    (SHADOW_MODE /\ USE_LANGCACHE /\ Answered /\ ProbeFailed(cur.probe)) =>
        /\ cur.out.source = "llm"
        /\ cur.out.response = generate_gemini_response(cur.llm, 1)
        /\ cur.out.shadow_data # None
        /\ cur.out.shadow_data[1].cache_hit = FALSE
        /\ cur.out.shadow_data[1].similarity_score = None

\* C4: every persisted record with cache_hit=false has a null similarity,
\* a null matched query and a null cache response
C4_MissRecordsAreNull ==
    \A d \in PersistedRecords :
        (d.cache_hit = FALSE) =>
            /\ d.similarity_score = None
            /\ d.matched_query = None
            /\ d.cache_response = None

\* a miss record has been persisted, in the store or in the file
C4_Witness ==
    /\ \E d \in redis_store : d.cache_hit = FALSE
       \/ \E i \in WellFormedLines(file) : json_loads(Lines(file)[i]).cache_hit = FALSE
    /\ \E d \in PersistedRecords : d.cache_hit

\* C5: a handled request is always answered, whether its record write has
\* completed, failed or never finishes (the writer has no fairness)
C5_ResponseNeverWaitsForWrite ==
    (cur.pc = "handled") ~> (cur.pc = "returned")

\* the answer was returned while the write of its record had not happened
C5_Witness ==
    /\ cur.pc = "returned"
    /\ cur.out.shadow_data # None
    /\ Len(threads) = handled
    /\ threads[Len(threads)].pc = "run"
    /\ \E t \in 1..Len(threads) : threads[t].pc = "failed"

\* the whole line of thread t is in the fallback file
InFile(t) ==
    /\ \E i \in 1..Len(file) : file[i].id = t /\ file[i].part = "head"
    /\ \E i \in 1..Len(file) : file[i].id = t /\ file[i].part = "tail"

\* C6: a record whose write has ended and did not reach the remote store
\* is in the local fallback file
C6_FallbackOnPrimaryFailure ==
    \A t \in 1..Len(threads) :
        (threads[t].pc \in {"done", "failed"} /\ Document(t) \notin redis_store)
            => InFile(t)

\* C9: when all N writers to the fallback file have finished, the file has
\* exactly N lines and each of them parses
C9_ConcurrentAppendsWellFormed ==
    (redis_client = "None" /\ \A t \in 1..Len(threads) : threads[t].pc = "done") =>
        /\ Len(Lines(file)) = Len(threads)
        /\ Cardinality(WellFormedLines(file)) = Len(threads)

\* C12: in shadow mode one store request for the pair (query, LLM response)
\* is issued when the probe found no candidate and none when it found one;
\* a record says cache_hit=false exactly when the store request was issued;
\* whatever the outcome of the store request, the answer is the response of
\* the one LLM call made
C12_ShadowStoresExactlyOnMiss ==
    (SHADOW_MODE /\ USE_LANGCACHE /\ Answered) =>
        /\ cur.out.stores =
              IF Len(search_langcache(cur.probe)) > 0
              THEN <<>>
              ELSE <<StoreReq(cur.query, generate_gemini_response(cur.llm, 1))>>
        /\ (cur.out.shadow_data # None) =>
              (cur.out.shadow_data[1].cache_hit <=> cur.out.stores = <<>>)
        /\ (cur.out.stores # <<>>) =>
              /\ cur.out.response = generate_gemini_response(cur.llm, 1)
              /\ cur.out.source = "llm"
              /\ cur.out.llm_calls = 1
              /\ cur.out.shadow_data # None

\* a shadow-mode miss answered with the first LLM text although its store
\* request raised
C12_Witness ==
    /\ SHADOW_MODE /\ USE_LANGCACHE /\ cur.pc = "returned"
    /\ cur.probe = Probe("ok", <<>>)
    /\ cur.store = "raise"
    /\ cur.out.stores = <<StoreReq("q1", "L1")>>
    /\ cur.out.response = "L1"

C14_RecordsAreWriteOnce ==
    [][ /\ \A d \in redis_store : d \in redis_store'
        /\ \A i \in WellFormedLines(file) :
              /\ i \in WellFormedLines(file')
              /\ json_loads(Lines(file')[i]) = json_loads(Lines(file)[i])
        /\ \A t1, t2 \in 1..Len(threads') :
              (t1 # t2) => Document(t1)'.request_id # Document(t2)'.request_id
      ]_vars

\* two records persisted in the store, then read
C14_Witness ==
    /\ Cardinality(redis_store) = 2
    /\ \A t \in 1..Len(threads) : threads[t].pc = "done"
    /\ loaded.pc = "read" /\ loaded.by = "get_shadow_data"
    /\ Len(loaded.result.data) = 2

(***************************************************************************)
(* The analyzers: percentiles and histograms                               *)
(***************************************************************************)
\* sorted(values): position k holds the k-th smallest value
Sorted(values) ==
    [k \in 1..Len(values) |->
        CHOOSE v \in { values[i] : i \in 1..Len(values) } :
            /\ Cardinality({ i \in 1..Len(values) : values[i] < v }) < k
            /\ k <= Cardinality({ i \in 1..Len(values) : values[i] <= v })]

\* an index computed as the nearest rank, ceil(n * q) - 1
PercentileIndex_nearest_rank(n, q) ==
    IF (n * q + 99) \div 100 = 0 THEN 0 ELSE ((n * q + 99) \div 100) - 1

\* int(n * 0.5), int(n * 0.9), int(n * 0.95), int(n * 0.99) with q in
\* hundredths: the 0-based index into the sorted list
PercentileIndex(n, q) == (n * q) \div 100

\* sorted_values[i] for a 0-based index i
At(sorted_values, i) == sorted_values[i + 1]

\* ShadowDataAnalyzer._calculate_percentiles
ShadowDataAnalyzer_calculate_percentiles(values) ==
    IF values = <<>> THEN [empty |-> TRUE]
    ELSE LET sorted_values == Sorted(values)
             n == Len(values)
         IN  [empty |-> FALSE,
              p50 |-> At(sorted_values, PercentileIndex(n, 50)),
              p90 |-> At(sorted_values, PercentileIndex(n, 90)),
              p95 |-> At(sorted_values, PercentileIndex(n, 95)),
              p99 |-> At(sorted_values, PercentileIndex(n, 99))]

\* PilotDataAnalyzer._calculate_percentiles: p99 is the last element unless
\* n > 100
PilotDataAnalyzer_calculate_percentiles(values) ==
    IF values = <<>> THEN [empty |-> TRUE]
    ELSE LET sorted_values == Sorted(values)
             n == Len(values)
         IN  [empty |-> FALSE,
              p50 |-> At(sorted_values, PercentileIndex(n, 50)),
              p90 |-> At(sorted_values, PercentileIndex(n, 90)),
              p95 |-> At(sorted_values, PercentileIndex(n, 95)),
              p99 |-> IF n > 100 THEN At(sorted_values, PercentileIndex(n, 99))
                      ELSE sorted_values[n]]

\* the number of values satisfying lo <= v < hi
CountIn(values, lo, hi) ==
    Cardinality({ i \in 1..Len(values) : lo <= values[i] /\ values[i] < hi })

\* the number of values satisfying v >= lo
CountAtLeast(values, lo) ==
    Cardinality({ i \in 1..Len(values) : values[i] >= lo })

\* the number of values satisfying v < hi
CountBelow(values, hi) ==
    Cardinality({ i \in 1..Len(values) : values[i] < hi })

\* the if/elif chain of lines 163-173: the bucket one similarity goes to
SimilarityBucket(sim) ==
    IF sim >= 90 THEN "very_high_0.9+"
    ELSE IF sim >= 80 THEN "high_0.8-0.9"
    ELSE IF sim >= 70 THEN "medium_0.7-0.8"
    ELSE IF sim >= 60 THEN "low_0.6-0.7"
    ELSE "very_low_<0.6"

ShadowBuckets ==
    {"very_high_0.9+", "high_0.8-0.9", "medium_0.7-0.8", "low_0.6-0.7", "very_low_<0.6"}

\* ShadowDataAnalyzer._analyze_similarity_distribution: five counters, {}
\* for an empty list
ShadowDataAnalyzer_analyze_similarity_distribution(similarities) ==
    IF similarities = <<>> THEN [empty |-> TRUE]
    ELSE [empty |-> FALSE,
          distribution |->
              [b \in ShadowBuckets |->
                  Cardinality({ i \in 1..Len(similarities) :
                                  SimilarityBucket(similarities[i]) = b })]]

\* PilotDataAnalyzer._analyze_similarity_distribution: three buckets
PilotDataAnalyzer_analyze_similarity_distribution(similarities) ==
    IF similarities = <<>> THEN [empty |-> TRUE]
    ELSE [empty |-> FALSE,
          high_similarity_count |-> CountAtLeast(similarities, 80),
          medium_similarity_count |-> CountIn(similarities, 60, 80),
          low_similarity_count |-> CountBelow(similarities, 60),
          avg_similarity |-> RoundMean(Mean(similarities), 10)]

(***************************************************************************)
(* The analyzers: time series                                              *)
(***************************************************************************)
\* a fromisoformat that files a rejected timestamp under the epoch
fromisoformat_lenient(d, name) ==
    LET ts == DictGet(d, name, 0)
    IN  [ok |-> TRUE, day |-> ts \div 24, hour |-> ts % 24]

\* datetime.fromisoformat(record.get(name, '').replace('Z', '+00:00')): the
\* parsed timestamp; it raises for the empty text, which is also what a
\* missing key gives
fromisoformat(d, name) ==
    LET ts == DictGet(d, name, 0)
    IN  IF ts = 0 THEN [ok |-> FALSE]
        ELSE [ok |-> TRUE, day |-> ts \div 24, hour |-> ts % 24]

\* strftime('%Y-%m-%d %H:00') and strftime('%Y-%m-%d')
HourKey(ts) == [day |-> ts.day, hour |-> ts.hour]
DayKey(ts) == [day |-> ts.day]

\* buckets[key]['total'] += dtotal; buckets[key]['hits'] += dhits, the
\* bucket being created on its first use.  A dict keeps insertion order, so
\* the buckets are a sequence.
Bump(buckets, key, dtotal, dhits) ==
    IF \E i \in 1..Len(buckets) : buckets[i].key = key
    THEN [i \in 1..Len(buckets) |->
            IF buckets[i].key = key
            THEN [key |-> key, total |-> buckets[i].total + dtotal,
                  hits |-> buckets[i].hits + dhits]
            ELSE buckets[i]]
    ELSE Append(buckets, [key |-> key, total |-> dtotal, hits |-> dhits])

HitIncrement(record) == IF IsHit(record) THEN 1 ELSE 0

\* the grouping loop of ShadowDataAnalyzer._analyze_by_time (lines 108-121)
RECURSIVE ShadowHourly(_, _)
ShadowHourly(data, hourly_data) ==
    IF data = <<>> THEN hourly_data
    ELSE LET record == Head(data)
             timestamp == fromisoformat(record, "timestamp")
         IN  ShadowHourly(Tail(data),
                          IF timestamp.ok
                          THEN Bump(hourly_data, HourKey(timestamp), 1,
                                    HitIncrement(record))
                          ELSE hourly_data)

\* the grouping loop of PilotDataAnalyzer._analyze_by_time (lines 121-142).
\* latency_sum += None raises after the hourly total was incremented, and
\* the except skips the rest of the record
RECURSIVE PilotGroups(_, _, _)
PilotGroups(data, hourly_data, daily_data) ==
    IF data = <<>> THEN [hourly |-> hourly_data, daily |-> daily_data]
    ELSE LET record == Head(data)
             timestamp == fromisoformat(record, "ts_request")
             latency == DictGet(record, "latency_llm_ms", Some(0))
         IN  IF ~timestamp.ok
             THEN PilotGroups(Tail(data), hourly_data, daily_data)
             ELSE IF latency = None
                  THEN PilotGroups(Tail(data),
                                   Bump(hourly_data, HourKey(timestamp), 1, 0),
                                   daily_data)
                  ELSE PilotGroups(Tail(data),
                                   Bump(hourly_data, HourKey(timestamp), 1,
                                        HitIncrement(record)),
                                   Bump(daily_data, DayKey(timestamp), 1,
                                        HitIncrement(record)))

\* {key: round(hits / total * 100, 2)} in hundredths of a percent
HitRates(buckets) ==
    [i \in 1..Len(buckets) |->
        [key |-> buckets[i].key,
         hit_rate |-> IF buckets[i].total > 0
                      THEN Round(buckets[i].hits * 100, buckets[i].total, 100)
                      ELSE 0]]

\* max(buckets.keys(), key=total) if buckets else None: the first key, in
\* insertion order, whose total is the largest
PeakKey(buckets) ==
    IF buckets = <<>> THEN None
    ELSE LET i == CHOOSE i \in 1..Len(buckets) :
                      /\ \A j \in 1..Len(buckets) : buckets[j].total <= buckets[i].total
                      /\ \A j \in 1..(i - 1) : buckets[j].total < buckets[i].total
         IN  Some(buckets[i].key)

\* ShadowDataAnalyzer._analyze_by_time (data is not empty)
ShadowDataAnalyzer_analyze_by_time(data) ==
    LET hourly_data == ShadowHourly(data, <<>>)
    IN  [hourly_hit_rates |-> HitRates(hourly_data),
         peak_hour |-> PeakKey(hourly_data),
         total_hours_analyzed |-> Len(hourly_data)]

\* PilotDataAnalyzer._analyze_by_time (data is not empty)
PilotDataAnalyzer_analyze_by_time(data) ==
    LET groups == PilotGroups(data, <<>>, <<>>)
    IN  [hourly_hit_rates |-> HitRates(groups.hourly),
         daily_hit_rates |-> HitRates(groups.daily),
         peak_hour |-> PeakKey(groups.hourly)]

(***************************************************************************)
(* The analyzers: the reports                                              *)
(***************************************************************************)
\* a - b for two means
Diff(a, b) == [num |-> a.num * b.den - b.num * a.den, den |-> a.den * b.den]

\* a _generate_recommendations that stops at the first item that applies
ShadowDataAnalyzer_generate_recommendations_first_only(hit_rate, avg_similarity, latency_improvement) ==
    IF hit_rate.num < 20 * hit_rate.den THEN <<"low_hit_rate">>
    ELSE IF hit_rate.num > 60 * hit_rate.den THEN <<"excellent_hit_rate">>
    ELSE IF avg_similarity.num < 70 * avg_similarity.den THEN <<"low_similarity">>
    ELSE IF latency_improvement.num > 500 * latency_improvement.den
    THEN <<"significant_latency_improvement">>
    ELSE <<"looks_good">>

\* ShadowDataAnalyzer._generate_recommendations (lines 177-195), on the
\* unrounded hit rate (percent), mean similarity and latency improvement
ShadowDataAnalyzer_generate_recommendations(hit_rate, avg_similarity, latency_improvement) ==
    LET recommendations ==
            (IF hit_rate.num < 20 * hit_rate.den THEN <<"low_hit_rate">>
             ELSE IF hit_rate.num > 60 * hit_rate.den THEN <<"excellent_hit_rate">>
             ELSE <<>>)
            \o (IF avg_similarity.num < 70 * avg_similarity.den
                THEN <<"low_similarity">> ELSE <<>>)
            \o (IF latency_improvement.num > 500 * latency_improvement.den
                THEN <<"significant_latency_improvement">> ELSE <<>>)
    IN  IF recommendations = <<>> THEN <<"looks_good">> ELSE recommendations

\* an analyze that consumes the records it has read
ShadowDataAnalyzer_analyze_draining(data) ==
    [report |-> [error |-> (data = <<>>), total_queries |-> Len(data)],
     data |-> <<>>]

\* ShadowDataAnalyzer.analyze (lines 51-100): the report, and self.data as
\* the call leaves it.  Costs are in 0.0001 USD.
ShadowDataAnalyzer_analyze(data) ==
    IF data = <<>> THEN [report |-> [error |-> TRUE], data |-> data]
    ELSE LET total_queries == Len(data)
             cache_hits == CountHits(data)
             hit_rate == [num |-> cache_hits * 100, den |-> total_queries]
             llm_latencies == TruthyValues(data, "llm_latency_ms")
             cache_latencies == TruthyValues(data, "cache_latency_ms")
             avg_llm_latency == Mean(llm_latencies)
             avg_cache_latency == Mean(cache_latencies)
             latency_improvement == Diff(avg_llm_latency, avg_cache_latency)
             similarities == NonNullValues(data, "similarity_score")
             avg_similarity == Mean(similarities)
         IN  [report |->
                [error |-> FALSE,
                 summary |->
                   [total_queries |-> total_queries,
                    cache_hits |-> cache_hits,
                    cache_misses |-> total_queries - cache_hits,
                    hit_rate_percent |-> RoundMean(hit_rate, 100),
                    avg_llm_latency_ms |-> RoundMean(avg_llm_latency, 100),
                    avg_cache_latency_ms |-> RoundMean(avg_cache_latency, 100),
                    latency_improvement_ms |-> RoundMean(latency_improvement, 100),
                    avg_similarity_score |-> RoundMean(avg_similarity, 10),
                    estimated_cost_savings_usd |-> 2 * cache_hits],
                 performance |->
                   [latency_percentiles |->
                      ShadowDataAnalyzer_calculate_percentiles(llm_latencies),
                    cache_latency_percentiles |->
                      ShadowDataAnalyzer_calculate_percentiles(cache_latencies),
                    similarity_distribution |->
                      ShadowDataAnalyzer_analyze_similarity_distribution(similarities)],
                 time_analysis |-> ShadowDataAnalyzer_analyze_by_time(data),
                 recommendations |->
                   ShadowDataAnalyzer_generate_recommendations(
                       hit_rate, avg_similarity, latency_improvement)],
              data |-> data]

\* statistics.median(values) in halves of the values' unit
Median2(values) ==
    LET sorted_values == Sorted(values)
        n == Len(sorted_values)
    IN  IF n % 2 = 1 THEN 2 * sorted_values[(n + 1) \div 2]
        ELSE sorted_values[n \div 2] + sorted_values[n \div 2 + 1]

\* PilotDataAnalyzer._analyze_vector_distances, in 0.0001
PilotDataAnalyzer_analyze_vector_distances(distances) ==
    IF distances = <<>> THEN [empty |-> TRUE]
    ELSE LET sorted_values == Sorted(distances)
         IN  [empty |-> FALSE,
              min_distance |-> 100 * sorted_values[1],
              max_distance |-> 100 * sorted_values[Len(sorted_values)],
              avg_distance |-> RoundMean(Mean(distances), 100),
              median_distance |-> 50 * Median2(distances)]

\* [1.0 - dist for dist in distances]
OneMinus(distances) == [i \in 1..Len(distances) |-> 100 - distances[i]]

\* Counter(d.get('model_name', 'unknown') for d in data)
ModelCounts(data) ==
    LET name(d) == DictGet(d, "model_name", "unknown")
    IN  [m \in { name(data[i]) : i \in 1..Len(data) } |->
            Cardinality({ i \in 1..Len(data) : name(data[i]) = m })]

\* PilotDataAnalyzer.analyze_pilot_metrics (lines 51-114): the report, and
\* self.data as the call leaves it.  raised: sum() met a null tokens_llm of
\* a hit (line 88).  Costs are in 0.0001 USD.
PilotDataAnalyzer_analyze_pilot_metrics(data) ==
    IF data = <<>> THEN [report |-> [empty |-> TRUE, raised |-> FALSE], data |-> data]
    ELSE IF SumRaises(TokenTerms(data, TRUE))
    THEN [report |-> [empty |-> FALSE, raised |-> TRUE], data |-> data]
    ELSE LET total_queries == Len(data)
             cache_hits == CountHits(data)
             hit_rate == [num |-> cache_hits * 100, den |-> total_queries]
             llm_latencies == TruthyValues(data, "latency_llm_ms")
             cache_latencies == TruthyValues(data, "latency_cache_ms")
             avg_llm_latency == Mean(llm_latencies)
             avg_cache_latency == Mean(cache_latencies)
             distances == NonNullValues(data, "vector_distance")
             similarities == OneMinus(distances)
             tokens == TruthyValues(data, "tokens_llm")
             tokens_saved == SumTerms(TokenTerms(data, TRUE))
         IN  [report |->
                [empty |-> FALSE, raised |-> FALSE,
                 pilot_summary |->
                   [total_queries |-> total_queries,
                    cache_hits |-> cache_hits,
                    cache_misses |-> total_queries - cache_hits,
                    hit_rate_percent |-> RoundMean(hit_rate, 100),
                    avg_llm_latency_ms |-> RoundMean(avg_llm_latency, 100),
                    avg_cache_latency_ms |-> RoundMean(avg_cache_latency, 100),
                    latency_improvement_ms |->
                        RoundMean(Diff(avg_llm_latency, avg_cache_latency), 100),
                    avg_similarity_score |-> RoundMean(Mean(similarities), 10),
                    total_tokens |-> Sum(tokens),
                    avg_tokens_per_query |-> RoundMean(Mean(tokens), 10),
                    tokens_saved |-> tokens_saved,
                    estimated_cost_savings_usd |-> CostSavings(tokens_saved)],
                 model_usage |-> ModelCounts(data),
                 performance_distribution |->
                   [latency_percentiles |->
                      PilotDataAnalyzer_calculate_percentiles(llm_latencies),
                    similarity_distribution |->
                      PilotDataAnalyzer_analyze_similarity_distribution(similarities),
                    vector_distance_stats |->
                      PilotDataAnalyzer_analyze_vector_distances(distances)],
                 time_analysis |-> PilotDataAnalyzer_analyze_by_time(data)],
              data |-> data]

(***************************************************************************)
(* Record sets given to the analyzers                                      *)
(***************************************************************************)
\* what one record says: hit or miss, the two latencies (ms), the
\* similarity (hundredths), the token count, and the timestamp text (None:
\* the record has no timestamp key)
Sample(hit, llm, cache, sim, tokens, ts) ==
    [hit |-> hit, llm |-> llm, cache |-> cache, sim |-> sim, tokens |-> tokens,
     ts |-> ts]

Samples ==
    { Sample(TRUE, Some(100), Some(20), Some(90), Some(40), Some(25)),
      Sample(TRUE, Some(0), Some(0), Some(80), Some(200), Some(25)),
      Sample(FALSE, Some(300), None, None, None, Some(26)),
      Sample(FALSE, Some(100), Some(20), None, Some(40), Some(0)),
      Sample(TRUE, Some(700), Some(0), Some(60), Some(0), None),
      Sample(TRUE, Some(100), Some(20), Some(70), Some(40), Some(49)),
      Sample(FALSE, Some(0), None, None, Some(40), Some(49)),
      Sample(TRUE, Some(300), Some(20), Some(58), None, Some(26)),
      Sample(TRUE, Some(100), Some(20), Some(100), Some(40), Some(25)) }

\* the record as the flask-app and ShadowDataAnalyzer name its fields
ShadowFormat(r) ==
    LET fields == [cache_hit |-> r.hit, llm_latency_ms |-> r.llm,
                   cache_latency_ms |-> r.cache, similarity_score |-> r.sim]
    IN  IF r.ts = None THEN fields ELSE fields @@ [timestamp |-> r.ts[1]]

\* the record as PilotDataAnalyzer and /api/shadow-data name its fields
PilotFormat(r) ==
    LET fields == [cache_hit |-> r.hit, latency_llm_ms |-> r.llm,
                   latency_cache_ms |-> r.cache,
                   vector_distance |-> IF r.sim = None THEN None
                                       ELSE Some(100 - r.sim[1]),
                   tokens_llm |-> r.tokens]
    IN  IF r.ts = None THEN fields ELSE fields @@ [ts_request |-> r.ts[1]]

SampleSets == UNION { [1..n -> Samples] : n \in 0..MaxRecords }

\* the file whose lines are the given records
FileOf(records) ==
    IF records = <<>> THEN <<>>
    ELSE LET line(i) == [request_id |-> i] @@ records[i]
         IN  [k \in 1..(2 * Len(records)) |->
                [id |-> (k + 1) \div 2,
                 part |-> IF k % 2 = 1 THEN "head" ELSE "tail",
                 rec |-> line((k + 1) \div 2)]]

AnalysisFiles ==
    { FileOf([i \in 1..Len(rs) |-> ShadowFormat(rs[i])]) : rs \in SampleSets }
    \cup { FileOf([i \in 1..Len(rs) |-> PilotFormat(rs[i])]) : rs \in SampleSets }

(***************************************************************************)
(* The analyzers: actions                                                  *)
(***************************************************************************)
AnalysisUnchanged ==
    UNCHANGED <<SHADOW_MODE, USE_LANGCACHE, redis_client, cur, handled, threads,
                cache_operations_log, redis_store, file, live,
                session, openai_client, request>>

\* the report of the previous run when it was a run of the same analyzer
PreviousReport(by) ==
    IF analysis.pc = "done" /\ analysis.by = by THEN Some(analysis.report) ELSE None

\* analyze_shadow_data.py: analyzer.analyze() on the records it loaded
AnalyzeShadow ==
    /\ loaded.pc = "read"
    /\ loaded.by = "ShadowDataAnalyzer.load_from_file"
    /\ LET r == ShadowDataAnalyzer_analyze(loaded.result.data)
       IN  /\ analysis' = [pc |-> "done", by |-> "ShadowDataAnalyzer.analyze",
                           report |-> r.report,
                           previous |-> PreviousReport("ShadowDataAnalyzer.analyze")]
           /\ loaded' = [loaded EXCEPT !.result.data = r.data]
    /\ AnalysisUnchanged

\* analyze_pilot_data.py: analyzer.analyze_pilot_metrics() on the records it
\* loaded
AnalyzePilot ==
    /\ loaded.pc = "read"
    /\ loaded.by = "PilotDataAnalyzer.load_from_file"
    /\ LET r == PilotDataAnalyzer_analyze_pilot_metrics(loaded.result.data)
       IN  /\ analysis' = [pc |-> "done",
                           by |-> "PilotDataAnalyzer.analyze_pilot_metrics",
                           report |-> r.report,
                           previous |->
                               PreviousReport("PilotDataAnalyzer.analyze_pilot_metrics")]
           /\ loaded' = [loaded EXCEPT !.result.data = r.data]
    /\ AnalysisUnchanged

InitAnalysis ==
    /\ SHADOW_MODE = FALSE
    /\ USE_LANGCACHE = FALSE
    /\ redis_client = "None"
    /\ cur = Idle
    /\ handled = 0
    /\ threads = <<>>
    /\ cache_operations_log = <<>>
    /\ redis_store = {}
    /\ file \in AnalysisFiles
    /\ live = Idle
    /\ session = [s \in Sessions |-> NoConfig]
    /\ openai_client = None
    /\ request = Idle
    /\ loaded = Idle
    /\ analysis = Idle

NextAnalysis ==
    \/ LoadShadowAnalyzer \/ LoadPilotAnalyzer \/ GetShadowData
    \/ AnalyzeShadow \/ AnalyzePilot

SpecAnalysis == InitAnalysis /\ [][NextAnalysis]_vars

(***************************************************************************)
(* The percentiles on lists of latencies                                   *)
(***************************************************************************)
LatencyValues == {10, 20, 30, 40}

\* the series 1, 2, ..., n ms
Series(n) == [i \in 1..n |-> i]

\* the series n, n - 1, ..., 1 ms
Descending(n) == [i \in 1..n |-> n + 1 - i]

ValueLists ==
    UNION { [1..n -> LatencyValues] : n \in 1..MaxValues }
    \cup { Series(99), Series(100), Descending(100), Series(101), Series(200) }

\* ShadowDataAnalyzer._calculate_percentiles on the list of latencies
ShadowPercentiles ==
    /\ analysis.pc = "values"
    /\ analysis' = [pc |-> "percentiles",
                    by |-> "ShadowDataAnalyzer._calculate_percentiles",
                    values |-> analysis.values,
                    result |-> ShadowDataAnalyzer_calculate_percentiles(analysis.values)]
    /\ UNCHANGED <<SHADOW_MODE, USE_LANGCACHE, redis_client, cur, handled, threads,
                   cache_operations_log, redis_store, file, live, loaded,
                   session, openai_client, request>>

\* PilotDataAnalyzer._calculate_percentiles on the list of latencies
PilotPercentiles ==
    /\ analysis.pc = "values"
    /\ analysis' = [pc |-> "percentiles",
                    by |-> "PilotDataAnalyzer._calculate_percentiles",
                    values |-> analysis.values,
                    result |-> PilotDataAnalyzer_calculate_percentiles(analysis.values)]
    /\ UNCHANGED <<SHADOW_MODE, USE_LANGCACHE, redis_client, cur, handled, threads,
                   cache_operations_log, redis_store, file, live, loaded,
                   session, openai_client, request>>

InitPercentiles ==
    /\ SHADOW_MODE = FALSE
    /\ USE_LANGCACHE = FALSE
    /\ redis_client = "None"
    /\ cur = Idle
    /\ handled = 0
    /\ threads = <<>>
    /\ cache_operations_log = <<>>
    /\ redis_store = {}
    /\ file = <<>>
    /\ live = Idle
    /\ session = [s \in Sessions |-> NoConfig]
    /\ openai_client = None
    /\ request = Idle
    /\ loaded = Idle
    /\ \E values \in ValueLists : analysis = [pc |-> "values", values |-> values]

NextPercentiles == ShadowPercentiles \/ PilotPercentiles

SpecPercentiles == InitPercentiles /\ [][NextPercentiles]_vars

\* the value v is the one at 0-based position i of the ascending order of
\* the values
IsOrderStatistic(values, i, v) ==
    /\ \E k \in 1..Len(values) : values[k] = v
    /\ Cardinality({ k \in 1..Len(values) : values[k] < v }) <= i
    /\ i < Cardinality({ k \in 1..Len(values) : values[k] <= v })

Maximum(values) ==
    CHOOSE v \in { values[k] : k \in 1..Len(values) } :
        \A k \in 1..Len(values) : values[k] <= v

\* C18: for a non-empty list of n latencies each of p50, p90, p95 and p99
\* is the element at index floor(n*q) of the ascending order, an index below
\* n; for n <= 100 p99 is the maximum; the series 1..100 gives 51, 91, 96
C18_Percentiles ==
    (analysis.pc = "percentiles") =>
        LET values == analysis.values
            n == Len(values)
            r == analysis.result
        IN  /\ ~r.empty
            /\ \A q \in {50, 90, 95, 99} : (n * q) \div 100 < n
            /\ IsOrderStatistic(values, (n * 50) \div 100, r.p50)
            /\ IsOrderStatistic(values, (n * 90) \div 100, r.p90)
            /\ IsOrderStatistic(values, (n * 95) \div 100, r.p95)
            /\ IsOrderStatistic(values, (n * 99) \div 100, r.p99)
            /\ (n <= 100) => r.p99 = Maximum(values)
            /\ (values = Series(100)) => (r.p50 = 51 /\ r.p90 = 91 /\ r.p95 = 96)

\* the percentiles of the series 1..100 and of 1..101, whose p99 is not
\* its maximum
C18_Witness ==
    /\ analysis.pc = "percentiles"
    /\ \/ /\ analysis.values = Descending(100)
          /\ analysis.result.p50 = 51 /\ analysis.result.p99 = 100
       \/ /\ analysis.values = Series(101)
          /\ analysis.result.p99 = 100

(***************************************************************************)
(* Claims about the analyzers                                              *)
(***************************************************************************)
ByShadow == analysis.by = "ShadowDataAnalyzer.analyze"
ByPilot == analysis.by = "PilotDataAnalyzer.analyze_pilot_metrics"

\* an analyzer has run and the loaded records are still the ones it read
Analysed ==
    /\ analysis.pc = "done"
    /\ loaded.pc = "read"
    /\ \/ ByShadow /\ loaded.by = "ShadowDataAnalyzer.load_from_file"
       \/ ByPilot /\ loaded.by = "PilotDataAnalyzer.load_from_file"

\* the run returned a report with a summary
HasSummary ==
    /\ Analysed
    /\ IF ByShadow THEN ~analysis.report.error
       ELSE ~analysis.report.empty /\ ~analysis.report.raised

Summary ==
    IF ByShadow THEN analysis.report.summary ELSE analysis.report.pilot_summary

\* GET /api/shadow-data answered with its metrics
GotMetrics ==
    loaded.pc = "read" /\ loaded.by = "get_shadow_data" /\ ~loaded.result.raised

\* the records with cache_hit true
TrueHits(data) ==
    { i \in 1..Len(data) : "cache_hit" \in DOMAIN data[i] /\ data[i].cache_hit = TRUE }

C16_HitCounts ==
    /\ HasSummary =>
          LET data == loaded.result.data
          IN  /\ Summary.total_queries = Len(data)
              /\ Summary.cache_hits = Cardinality(TrueHits(data))
              /\ Summary.cache_hits + Summary.cache_misses = Summary.total_queries
              /\ 2 * Summary.total_queries * Summary.hit_rate_percent
                    <= 2 * 10000 * Summary.cache_hits + Summary.total_queries
              /\ 2 * 10000 * Summary.cache_hits - Summary.total_queries
                    < 2 * Summary.total_queries * Summary.hit_rate_percent
    /\ GotMetrics =>
          LET data == loaded.result.data
              m == loaded.result.metrics
          IN  /\ m.total_queries = Len(data)
              /\ m.cache_hits = Cardinality(TrueHits(data))
              /\ m.cache_hits + m.cache_misses = m.total_queries
              /\ (m.total_queries = 0) => (m.hit_rate = 0)
              /\ (m.total_queries > 0) =>
                    /\ 2 * m.total_queries * m.hit_rate
                          <= 2 * 1000 * m.cache_hits + m.total_queries
                    /\ 2 * 1000 * m.cache_hits - m.total_queries
                          < 2 * m.total_queries * m.hit_rate

\* a report over two hits and a miss (66.67 percent), and metrics over no
\* record
C16_Witness ==
    \/ /\ HasSummary
       /\ Summary.total_queries = 3 /\ Summary.cache_hits = 2
       /\ Summary.hit_rate_percent = 6667
    \/ /\ GotMetrics
       /\ loaded.result.metrics.total_queries = 3
       /\ loaded.result.metrics.hit_rate = 333

\* the mean over the records whose field is not null, a recorded 0 included
MeanOfNonNull(data, name) == Mean(NonNullValues(data, name))

\* C17: the mean LLM latency and the mean cache latency are the means over
\* the records whose latency field is not null, a recorded 0 included, and
\* the latency improvement is the mean LLM latency minus the mean cache
\* latency
C17_LatencyMeans ==
    /\ HasSummary =>
          LET data == loaded.result.data
              mean_llm == MeanOfNonNull(data, IF ByShadow THEN "llm_latency_ms"
                                              ELSE "latency_llm_ms")
              mean_cache == MeanOfNonNull(data, IF ByShadow THEN "cache_latency_ms"
                                                ELSE "latency_cache_ms")
          IN  /\ Summary.avg_llm_latency_ms = RoundMean(mean_llm, 100)
              /\ Summary.avg_cache_latency_ms = RoundMean(mean_cache, 100)
              /\ Summary.latency_improvement_ms
                    = RoundMean(Diff(mean_llm, mean_cache), 100)
    /\ GotMetrics =>
          LET data == loaded.result.data
              m == loaded.result.metrics
              mean_llm == MeanOfNonNull(data, "latency_llm_ms")
              mean_cache == MeanOfNonNull(data, "latency_cache_ms")
          IN  /\ m.avg_llm_latency = RoundMean(mean_llm, 10)
              /\ m.avg_cache_latency = RoundMean(mean_cache, 10)
              /\ m.latency_improvement = RoundMean(Diff(mean_llm, mean_cache), 10)

\* value is num/den rounded to a whole number of 1/scale units
IsRounded(value, num, den, scale) ==
    /\ 2 * den * value <= 2 * scale * num + den
    /\ 2 * scale * num - den < 2 * den * value

\* the records that carry a timestamp text that parses, and the hour and
\* the day it names
TsName == IF ByShadow THEN "timestamp" ELSE "ts_request"
Stamped(data) ==
    { i \in 1..Len(data) : TsName \in DOMAIN data[i] /\ data[i][TsName] >= 1 }
HourOf(d) == [day |-> d[TsName] \div 24, hour |-> d[TsName] % 24]
DayOf(d) == [day |-> d[TsName] \div 24]

\* rates is the table of the hit rates of the stamped records grouped by
\* KeyOf: one entry per group, with the rate hits/total of the group
IsRateTable(rates, data, KeyOf(_)) ==
    LET members(key) == { i \in Stamped(data) : KeyOf(data[i]) = key }
    IN  /\ { rates[k].key : k \in 1..Len(rates) }
              = { KeyOf(data[i]) : i \in Stamped(data) }
        /\ \A k, l \in 1..Len(rates) : rates[k].key = rates[l].key => k = l
        /\ \A k \in 1..Len(rates) :
              IsRounded(rates[k].hit_rate,
                        100 * Cardinality(members(rates[k].key) \cap TrueHits(data)),
                        Cardinality(members(rates[k].key)), 100)

\* peak is a group of the stamped records with the most records, and no
\* group when no record is stamped
IsPeak(peak, data, KeyOf(_)) ==
    LET members(key) == { i \in Stamped(data) : KeyOf(data[i]) = key }
    IN  IF Stamped(data) = {} THEN peak = None
        ELSE /\ peak # None
             /\ members(peak[1]) # {}
             /\ \A i \in Stamped(data) :
                   Cardinality(members(KeyOf(data[i]))) <= Cardinality(members(peak[1]))

\* C19: a record without a parsable timestamp is in no hourly or daily
\* bucket but is counted in total_queries; the hit rate of a bucket is
\* hits/total of its records; the peak bucket has a maximal total
C19_TimeBuckets ==
    HasSummary =>
        LET data == loaded.result.data
            time_analysis == analysis.report.time_analysis
        IN  /\ Summary.total_queries = Len(data)
            /\ IsRateTable(time_analysis.hourly_hit_rates, data, HourOf)
            /\ IsPeak(time_analysis.peak_hour, data, HourOf)
            /\ ByPilot => IsRateTable(time_analysis.daily_hit_rates, data, DayOf)

\* three records were analysed, one of them without a parsable timestamp,
\* the two others in one hour
C19_Witness ==
    /\ HasSummary
    /\ Summary.total_queries = 3
    /\ Cardinality(Stamped(loaded.result.data)) = 2
    /\ Len(analysis.report.time_analysis.hourly_hit_rates) = 1
    /\ analysis.report.time_analysis.hourly_hit_rates[1].hit_rate = 5000

\* the similarities of the analysed records that are not null
RecordedSimilarities ==
    LET data == loaded.result.data
    IN  IF ByShadow THEN NonNullValues(data, "similarity_score")
        ELSE OneMinus(NonNullValues(data, "vector_distance"))

\* the counters of the reported histogram, each with the interval
\* lo <= s < hi its name stands for (hi = 101: no upper limit)
Histogram ==
    IF ByShadow
    THEN LET d == analysis.report.performance.similarity_distribution
         IN  IF d.empty THEN {}
             ELSE { [lo |-> 0, hi |-> 60, count |-> d.distribution["very_low_<0.6"]],
                    [lo |-> 60, hi |-> 70, count |-> d.distribution["low_0.6-0.7"]],
                    [lo |-> 70, hi |-> 80, count |-> d.distribution["medium_0.7-0.8"]],
                    [lo |-> 80, hi |-> 90, count |-> d.distribution["high_0.8-0.9"]],
                    [lo |-> 90, hi |-> 101, count |-> d.distribution["very_high_0.9+"]] }
    ELSE LET d == analysis.report.performance_distribution.similarity_distribution
         IN  IF d.empty THEN {}
             ELSE { [lo |-> 0, hi |-> 60, count |-> d.low_similarity_count],
                    [lo |-> 60, hi |-> 80, count |-> d.medium_similarity_count],
                    [lo |-> 80, hi |-> 101, count |-> d.high_similarity_count] }

FiveIntervals == { <<0, 60>>, <<60, 70>>, <<70, 80>>, <<80, 90>>, <<90, 101>> }

\* C20: the similarity histogram has one counter for each of [0,0.6)
\* [0.6,0.7) [0.7,0.8) [0.8,0.9) [0.9,1.0], which counts the non-null
\* similarities of its interval, a boundary value in the upper interval
C20_FiveBucketHistogram ==
    (HasSummary /\ RecordedSimilarities # <<>>) =>
        \A iv \in FiveIntervals :
            \E h \in Histogram :
                /\ h.lo = iv[1] /\ h.hi = iv[2]
                /\ h.count = Cardinality({ i \in 1..Len(RecordedSimilarities) :
                                            /\ iv[1] <= RecordedSimilarities[i]
                                            /\ RecordedSimilarities[i] < iv[2] })

\* the items of the recommendation list
Recommended == { analysis.report.recommendations[k] :
                   k \in 1..Len(analysis.report.recommendations) }

\* C21: the recommendation list holds exactly the items that apply among
\* hit rate below 20 percent, hit rate above 60 percent, mean similarity
\* below 0.7 (the mean of no similarity being 0) and latency improvement
\* above 500 ms, each once, and the generic item exactly when none of the
\* four applies, so the list is never empty
C21_Recommendations ==
    (HasSummary /\ ByShadow) =>
        LET data == loaded.result.data
            hits == Cardinality(TrueHits(data))
            sims == NonNullValues(data, "similarity_score")
            specific == {"low_hit_rate", "excellent_hit_rate", "low_similarity",
                         "significant_latency_improvement"}
        IN  /\ "low_hit_rate" \in Recommended <=> 100 * hits < 20 * Len(data)
            /\ "excellent_hit_rate" \in Recommended <=> 100 * hits > 60 * Len(data)
            /\ "low_similarity" \in Recommended
                  <=> (sims = <<>> \/ Sum(sims) < 70 * Len(sims))
            /\ "significant_latency_improvement" \in Recommended
                  <=> Summary.latency_improvement_ms > 500 * 100
            /\ "looks_good" \in Recommended <=> Recommended \cap specific = {}
            /\ Recommended \subseteq specific \cup {"looks_good"}
            /\ Recommended # {}
            /\ Cardinality(Recommended) = Len(analysis.report.recommendations)

\* a report recommending for an excellent hit rate and a significant
\* latency improvement at once
C21_Witness ==
    /\ HasSummary /\ ByShadow
    /\ Recommended = {"excellent_hit_rate", "significant_latency_improvement"}

(***************************************************************************)
(* Claims about the similarity, the stored texts and the LLM calls         *)
(***************************************************************************)
\* the live call's best candidate came with a distance
LiveBestHasDistance == LiveHasCandidate /\ LiveBest.distance # None

\* C22: with a best candidate for which the backend reports a distance,
\* the similarity the live engine compares to its threshold and returns is
\* 1 - distance, a score in [0,1]: the cached response is served exactly
\* when 1 - distance is above 0.8 and the response text is not empty, and
\* it is returned with that similarity
C22_SimilarityIsOneMinusDistance ==
    LiveBestHasDistance =>
        LET similarity == 100 - LiveBest.distance[1]
        IN  /\ similarity \in 0..100
            /\ LiveServedFromCache <=>
                  (similarity > 80 /\ Get(LiveBest.response, "") # "")
            /\ LiveServedFromCache => live.out.similarity = Some(similarity)

\* C23: the LLM latency of the shadow record a request hands to
\* log_shadow_data is the time of its LLM call alone, without the time of
\* the cache probe and of the cache store request
C23_LLMLatencyIsLLMTimeOnly ==
    (cur.pc # "idle" /\ cur.out.shadow_data # None) =>
        cur.out.shadow_data[1].llm_latency_ms = Some(LLMElapsed)

\* C24: every live-mode result has cached = true exactly when its source
\* is the cache and exactly when its reason is cache_hit, and a call that
\* serves the cached response makes no LLM call and no store request
C24_LiveResultCoherent ==
    (live.pc = "done" /\ ~live.out.raised) =>
        /\ live.out.cached <=> (live.out.source = "langcache")
        /\ live.out.cached <=> (live.out.reason = "cache_hit")
        /\ live.out.source \in {"langcache", "openai"}
        /\ live.out.reason \in {"cache_hit", "cache_miss", "missing_credentials",
                                "error"}
        /\ live.out.cached => (live.out.llm_calls = 0 /\ live.out.stores = <<>>)

\* a session with an LLM client was served the cached response
C24_Witness ==
    /\ live.pc = "done"
    /\ live.config.client # None
    /\ ~live.out.raised
    /\ live.out.cached
    /\ live.out.reason = "cache_hit"
    /\ live.out.llm_calls = 0

(***************************************************************************)
(* simple-chatbot: the session configuration and the LLM client            *)
(***************************************************************************)
\* texts are sequences of characters.  Two API keys of nine characters, a
\* cache id of three
KeyA == <<"s", "k", "-", "A", "1", "2", "3", "4", "5">>
KeyB == <<"s", "k", "-", "B", "1", "2", "3", "4", "5">>
CacheId == <<"i", "d", "7">>

\* value.strip()
strip(value) ==
    LET kept == { i \in 1..Len(value) : value[i] # " " }
    IN  IF kept = {} THEN <<>>
        ELSE SubSeq(value,
                    CHOOSE i \in kept : \A j \in kept : i <= j,
                    CHOOSE i \in kept : \A j \in kept : j <= i)

\* '*' * n
Stars(n) == [i \in 1..n |-> "*"]

\* mask_sensitive_value (lines 42-48)
mask_sensitive_value(value) ==
    IF value = <<>> \/ Len(strip(value)) = 0 THEN <<>>
    ELSE IF Len(value) <= 8 THEN Stars(Len(value))
    ELSE SubSeq(value, 1, 4) \o Stars(Len(value) - 8)
         \o SubSeq(value, Len(value) - 3, Len(value))

\* key_mapping (lines 396-402), for the modelled keys
key_mapping ==
    [openaiApiKey |-> "openai_api_key", langcacheCacheId |-> "langcache_cache_id"]

\* the body key whose value goes to the config key k
BodyKey(k) == CHOOSE bk \in DOMAIN key_mapping : key_mapping[bk] = k

\* the texts a browser posts for each body key: nothing, blanks, a
\* credential (padded or not) and the masked texts GET /api/config returns
PostedValues ==
    [openaiApiKey |-> {<<>>, KeyA, KeyB, mask_sensitive_value(KeyA),
                       mask_sensitive_value(KeyB)},
     langcacheCacheId |-> {<<>>, <<" ">>, CacheId, <<" ">> \o CacheId,
                           mask_sensitive_value(CacheId)}]

Bodies == { b \in [DOMAIN key_mapping -> UNION { PostedValues[bk] : bk \in DOMAIN key_mapping }] :
              \A bk \in DOMAIN key_mapping : b[bk] \in PostedValues[bk] }

\* get_openai_client (lines 51-55) for a session: a client built from the
\* session's key, None without a key
get_openai_client(config) ==
    IF config["openai_api_key"] # <<>> THEN Some(config["openai_api_key"]) ELSE None

\* line 405: `value and not value.startswith('*') and len(value.strip()) > 0`
Accepted(value) ==
    /\ value # <<>>
    /\ value[1] # "*"
    /\ Len(strip(value)) > 0

\* GET /api/config (lines 368-383): the masked values of the session
ConfigGet(s) ==
    /\ request' = [pc |-> "config_get", sid |-> s,
                   config |-> [k \in ConfigKeys |-> mask_sensitive_value(session[s][k])]]
    /\ UNCHANGED <<SHADOW_MODE, USE_LANGCACHE, redis_client, cur, handled, threads,
                   cache_operations_log, redis_store, file, live, loaded, analysis,
                   session, openai_client>>

\* POST /api/config (lines 385-419): the accepted values are stored in the
\* session, then the module-level client is rebuilt from this session's key
ConfigPost(s) ==
    /\ \E body \in Bodies :
          /\ session' = [session EXCEPT ![s] =
                            [k \in ConfigKeys |->
                                IF Accepted(body[BodyKey(k)])
                                THEN strip(body[BodyKey(k)])
                                ELSE session[s][k]]]
          /\ request' = [pc |-> "config_post", sid |-> s, body |-> body]
    /\ openai_client' = get_openai_client(session'[s])
    /\ UNCHANGED <<SHADOW_MODE, USE_LANGCACHE, redis_client, cur, handled, threads,
                   cache_operations_log, redis_store, file, live, loaded, analysis>>

\* POST /chat (lines 245-275): chat_with_ai and get_openai_response both
\* call the module-level client; the request records which client answered
Chat(s) ==
    /\ request' = [pc |-> "chat", sid |-> s, client |-> openai_client]
    /\ UNCHANGED <<SHADOW_MODE, USE_LANGCACHE, redis_client, cur, handled, threads,
                   cache_operations_log, redis_store, file, live, loaded, analysis,
                   session, openai_client>>

NextConfig == \E s \in Sessions : ConfigGet(s) \/ ConfigPost(s) \/ Chat(s)

\* the process after its start: no session has a config and the
\* module-level client is None (line 58)
InitConfig == InitLive

SpecConfig == InitConfig /\ [][NextConfig]_vars

\* the body that posts back what GET /api/config shows for a config
PostBack(config) ==
    [bk \in DOMAIN key_mapping |-> mask_sensitive_value(config[key_mapping[bk]])]

\* C25: a configuration POST never replaces a stored credential by an
\* empty text, and a POST of the masked values that GET /api/config returns
\* for the session leaves every stored credential of the session unchanged
C25_MaskedPostKeepsCredentials ==
    [][ (request'.pc = "config_post") =>
          LET s == request'.sid
          IN  /\ \A k \in ConfigKeys : session[s][k] # <<>> => session'[s][k] # <<>>
              /\ (request'.body = PostBack(session[s])) => (session'[s] = session[s])
      ]_vars

\* C28: a chat request of a session is answered by the client built from
\* that session's own API key (by no client when the session has no key)
C28_ClientIsPerSession ==
    (request.pc = "chat") =>
        request.client = get_openai_client(session[request.sid])

\* C26: the flask-app handler invokes the LLM at most once for a query,
\* whatever the cache probe and the cache store return or raise
C26_LLMInvokedAtMostOnce ==
    (cur.pc # "idle") => (cur.out.llm_calls <= 1)

\* the texts that are no answer of the LLM: the flask-app's apology for a
\* failed call and the chatbot's request to configure a key
NoAnswerTexts == {"ERR", "PLEASE_CONFIGURE"}

\* C27: the live engine issues a store request only with the text a
\* successful LLM call produced, never with a placeholder text
C27_OnlyLLMAnswersAreStored ==
    (live.pc = "done") =>
        \A k \in 1..Len(live.out.stores) :
            /\ live.out.stores[k].response \notin NoAnswerTexts
            /\ live.out.llm_calls >= 1

(***************************************************************************)
(* Claims about the analyzers and the order of the records                 *)
(***************************************************************************)
\* the records with two of them exchanged
Swap(data, i, j) ==
    [k \in 1..Len(data) |->
        IF k = i THEN data[j] ELSE IF k = j THEN data[i] ELSE data[k]]

\* a {key: rate} dict without the order of its keys
AsEntries(rates) == { rates[k] : k \in 1..Len(rates) }

\* a report with its dicts taken without the order of their keys
Unordered(report) ==
    IF "time_analysis" \notin DOMAIN report THEN report
    ELSE [report EXCEPT
            !.time_analysis =
                IF "daily_hit_rates" \in DOMAIN @
                THEN [@ EXCEPT !.hourly_hit_rates = AsEntries(@),
                               !.daily_hit_rates = AsEntries(@)]
                ELSE [@ EXCEPT !.hourly_hit_rates = AsEntries(@)]]

\* the report of the analyzer that ran, for other records
Rerun(data) ==
    IF ByShadow THEN ShadowDataAnalyzer_analyze(data).report
    ELSE PilotDataAnalyzer_analyze_pilot_metrics(data).report

\* C29: the report depends on the records only, not on their order:
\* exchanging any two of the analysed records gives the same report
C29_OrderIndependent ==
    Analysed =>
        \A i, j \in 1..Len(loaded.result.data) :
            Unordered(Rerun(Swap(loaded.result.data, i, j))) = Unordered(analysis.report)

\* C30: on records whose nullable fields are null, PilotDataAnalyzer and
\* GET /api/shadow-data complete with a result, without raising, and the
\* result counts every record in total_queries
C30_AnalysisNeverRaises ==
    /\ (analysis.pc = "done" /\ ByPilot) =>
          /\ ~analysis.report.raised
          /\ (Analysed /\ ~analysis.report.empty) =>
                analysis.report.pilot_summary.total_queries = Len(loaded.result.data)
    /\ (loaded.pc = "read" /\ loaded.by = "get_shadow_data") =>
          /\ ~loaded.result.raised
          /\ loaded.result.metrics.total_queries = Len(loaded.result.data)

====
